---------------------------- MODULE Spec2Model ----------------------------
(***************************************************************************)
(* A model of src/cls/tabular/cls_tabular_utils.h (namespace Tables):      *)
(* the TypedPredicate class (construction checks, copy, updateAgg), the    *)
(* aggregate update computeAgg, the index key encoding u64tostr, and the   *)
(* row loop of processSkyFb.                                               *)
(*                                                                         *)
(* assert(e) is modelled as Ceph builds it: it aborts iff e is zero/false. *)
(***************************************************************************)
EXTENDS Integers, Sequences, FiniteSets, TLC

VARIABLES
    \* ---- TypedPredicate objects ----
    preds,          \* predicate_vec: the live TypedPredicate objects
    ev,             \* what the last operation on a predicate did
    charUnsigned,   \* whether plain char is unsigned in this build
    \* ---- computeAgg ----
    aggOp,          \* the op handed to computeAgg
    acc0,           \* the accumulator before the first row
    acc,            \* the running accumulator (oldval of the next call)
    rows,           \* the row values folded so far
    call,           \* the last computeAgg call and its outcome
    \* ---- u64tostr ----
    v1, v2,         \* two uint64_t values (four 16-bit limbs each)
    key1, key2,     \* their key strings (sequences of character codes)
    \* ---- processSkyFb ----
    delete_vec,     \* root_table.delete_vec: slot -> 0/1
    rowdata,        \* the value of the processed column in each slot
    proc            \* the result of the last processSkyFb invocation

vars == <<preds, ev, charUnsigned, aggOp, acc0, acc, rows, call,
          v1, v2, key1, key2, delete_vec, rowdata, proc>>

predVars == <<preds, ev, charUnsigned>>
aggVars  == <<aggOp, acc0, acc, rows, call>>
keyVars  == <<v1, v2, key1, key2>>
procVars == <<delete_vec, rowdata, proc>>

(***************************************************************************)
(* Bounds of the model                                                     *)
(***************************************************************************)
MaxVal      == 1    \* row values range over -MaxVal..MaxVal (and 5, 10)
MaxRows     == 3    \* rows folded into one accumulator
MaxSmallKey == 11   \* small index values 0..MaxSmallKey
MaxPow10    == 19   \* index values 10^k - 1 and 10^k for k up to MaxPow10
MaxPreds    == 2    \* live predicate objects
MaxPVal     == 1    \* numeric predicate values 0..MaxPVal
NSlots      == 3    \* physical row slots of a partition
MaxRowNums  == 2    \* length of an explicit row_nums list

(***************************************************************************)
(* enum TablesErrCodes                                                     *)
(***************************************************************************)
OpNotRecognized               == 10
OpNotImplemented              == 11
RowIndexOOB                   == 19

(***************************************************************************)
(* enum SkyDataType                                                        *)
(***************************************************************************)
SDT_INT8   == 1
SDT_INT16  == 2
SDT_INT32  == 3
SDT_INT64  == 4
SDT_UINT8  == 5
SDT_UINT16 == 6
SDT_UINT32 == 7
SDT_UINT64 == 8
SDT_CHAR   == 9
SDT_UCHAR  == 10
SDT_BOOL   == 11
SDT_FLOAT  == 12
SDT_DOUBLE == 13
SDT_DATE   == 14
SDT_STRING == 15
SDT_FIRST  == SDT_INT8
SDT_LAST   == SDT_STRING

(***************************************************************************)
(* enum SkyOpType                                                          *)
(***************************************************************************)
SOT_lt           == 1
SOT_gt           == 2
SOT_eq           == 3
SOT_ne           == 4
SOT_leq          == 5
SOT_geq          == 6
SOT_add          == 7
SOT_sub          == 8
SOT_mul          == 9
SOT_div          == 10
SOT_min          == 11
SOT_max          == 12
SOT_sum          == 13
SOT_cnt          == 14
SOT_like         == 15
SOT_in           == 16
SOT_not_in       == 17
SOT_between      == 18
SOT_logical_or   == 19
SOT_logical_and  == 20
SOT_logical_not  == 21
SOT_logical_nor  == 22
SOT_logical_xor  == 23
SOT_logical_nand == 24
SOT_bitwise_and  == 25
SOT_bitwise_or   == 26
SOT_FIRST        == SOT_lt
SOT_LAST         == SOT_bitwise_or

\* assert(e): true when the program continues past it
AssertPasses(e) == e # 0


(***************************************************************************)
(* uint64_t values.  A value is <<l3, l2, l1, l0>>, four 16-bit limbs,     *)
(* most significant first, so that every uint64_t is representable.        *)
(***************************************************************************)
LimbBase == 256 * 256

U64Max == <<LimbBase - 1, LimbBase - 1, LimbBase - 1, LimbBase - 1>>

U64OfSmall(n) == <<0, 0, 0, n>>

\* v < w on uint64_t
U64Less(v, w) ==
    \E i \in 1..4 : /\ v[i] < w[i]
                    /\ \A j \in 1..(i - 1) : v[j] = w[j]

\* v / 10 and v % 10 on uint64_t: long division over the limbs
U64DivMod10(v) ==
    LET c1 == v[1]
        c2 == (c1 % 10) * LimbBase + v[2]
        c3 == (c2 % 10) * LimbBase + v[3]
        c4 == (c3 % 10) * LimbBase + v[4]
    IN  [q |-> <<c1 \div 10, c2 \div 10, c3 \div 10, c4 \div 10>>,
         r |-> c4 % 10]

\* v * 10 + d on uint64_t, modulo 2^64 (used to write the sample values in
\* decimal)
U64MulAdd10(v, d) ==
    LET c4 == v[4] * 10 + d
        c3 == v[3] * 10 + (c4 \div LimbBase)
        c2 == v[2] * 10 + (c3 \div LimbBase)
        c1 == v[1] * 10 + (c2 \div LimbBase)
    IN  <<c1 % LimbBase, c2 % LimbBase, c3 % LimbBase, c4 % LimbBase>>

RECURSIVE U64OfDecimal(_)
U64OfDecimal(ds) ==
    IF ds = <<>> THEN U64OfSmall(0)
    ELSE U64MulAdd10(U64OfDecimal(SubSeq(ds, 1, Len(ds) - 1)), ds[Len(ds)])

(***************************************************************************)
(* std::string values are sequences of character codes; operator< on       *)
(* std::string is the lexicographic order of the codes.                    *)
(***************************************************************************)
CharZero == 48      \* '0'

RECURSIVE StrLess(_, _)
StrLess(s, t) ==
    IF t = <<>> THEN FALSE
    ELSE IF s = <<>> THEN TRUE
    ELSE IF s[1] # t[1] THEN s[1] < t[1]
    ELSE StrLess(Tail(s), Tail(t))

\* operator<<(ostream&, unsigned long): the decimal digits, no leading zeros
RECURSIVE DecimalDigits(_)
DecimalDigits(v) ==
    LET dm == U64DivMod10(v)
    IN  IF dm.q = U64OfSmall(0) THEN <<CharZero + dm.r>>
        ELSE Append(DecimalDigits(dm.q), CharZero + dm.r)

\* std::setw(w) << std::setfill(fill): pad on the left up to width w
PadLeft(s, w, fill) ==
    IF Len(s) >= w THEN s
    ELSE [i \in 1..(w - Len(s)) |-> fill] \o s

KeyWidth == 20

\* a plausible slip: the value is written without setw/setfill
u64tostr_unpadded(value) == DecimalDigits(value)

\* ss << std::setw(20) << std::setfill('0') << value
u64tostr(value) == PadLeft(DecimalDigits(value), KeyWidth, CharZero)

(***************************************************************************)
(* The uint64_t values the key encoding is applied to: the small values,   *)
(* 10^k - 1 and 10^k for every k up to 19, 2^32 - 1, 2^32 and 2^64 - 1.    *)
(***************************************************************************)
Nines(k)    == [i \in 1..k |-> 9]
OneZeros(k) == <<1>> \o [i \in 1..k |-> 0]

U64Samples ==
    {U64OfSmall(n) : n \in 0..MaxSmallKey}
    \cup {U64OfDecimal(Nines(k)) : k \in 1..MaxPow10}
    \cup {U64OfDecimal(OneZeros(k)) : k \in 1..MaxPow10}
    \cup {<<0, 0, LimbBase - 1, LimbBase - 1>>, <<0, 1, 0, 0>>, U64Max}

NoKey == <<>>

InitKey ==
    /\ v1 \in U64Samples
    /\ v2 \in U64Samples
    /\ key1 = NoKey
    /\ key2 = NoKey

\* the key strings of v1 and v2 are built
BuildKeys ==
    /\ key1 = NoKey
    /\ key1' = u64tostr(v1)
    /\ key2' = u64tostr(v2)
    /\ UNCHANGED <<v1, v2>>

(***************************************************************************)
(* computeAgg.  T is modelled by the integers; the values stay far from    *)
(* the limits of any T the template is instantiated with.                  *)
(***************************************************************************)
AggOps == {SOT_min, SOT_max, SOT_sum, SOT_cnt}

Returned(x) == [status |-> "returned", ret |-> x]
Aborted     == [status |-> "aborted", ret |-> 0]

\* a plausible slip: COUNT adds the row value instead of one
computeAgg_cntAddsVal(val, oldval, op) ==
    IF op = SOT_min /\ val < oldval THEN Returned(val)
    ELSE IF op \in {SOT_min, SOT_max} /\ val > oldval THEN Returned(val)
    ELSE IF op \in {SOT_min, SOT_max, SOT_sum, SOT_cnt} THEN Returned(oldval + val)
    ELSE IF AssertPasses(OpNotImplemented) THEN Returned(oldval)
    ELSE Aborted

\* The switch has no break: a case whose `if` is false falls into the next
\* case, and the default case's assert is followed by `return oldval`.
computeAgg(val, oldval, op) ==
    IF op = SOT_min /\ val < oldval THEN Returned(val)
    ELSE IF op \in {SOT_min, SOT_max} /\ val > oldval THEN Returned(val)
    ELSE IF op \in {SOT_min, SOT_max, SOT_sum} THEN Returned(oldval + val)
    ELSE IF op = SOT_cnt THEN Returned(oldval + 1)
    ELSE IF AssertPasses(OpNotImplemented) THEN Returned(oldval)
    ELSE Aborted

\* the row values and the ops computeAgg is called with
Vals   == (-MaxVal..MaxVal) \cup {5, 10}
OpArgs == (SOT_FIRST - 1)..(SOT_LAST + 1)

NoCall == [val |-> 0, oldval |-> 0, op |-> 0, status |-> "none", ret |-> 0]

InitAgg ==
    /\ aggOp \in OpArgs
    /\ acc0 \in Vals
    /\ acc = acc0
    /\ rows = <<>>
    /\ call = NoCall

\* one row is folded into the accumulator: acc = computeAgg(val, acc, aggOp)
Fold(val) ==
    /\ Len(rows) < MaxRows
    /\ call.status # "aborted"
    /\ LET r == computeAgg(val, acc, aggOp)
       IN  /\ call' = [val |-> val, oldval |-> acc, op |-> aggOp,
                       status |-> r.status, ret |-> r.ret]
           /\ acc' = IF r.status = "returned" THEN r.ret ELSE acc
           /\ rows' = IF r.status = "returned" THEN Append(rows, val) ELSE rows
    /\ UNCHANGED <<aggOp, acc0>>

FoldRow == \E val \in Vals : Fold(val)

(***************************************************************************)
(* TypedPredicate<T>.  The template parameter T is a name; the type traits *)
(* the constructor asserts on are sets of names.                           *)
(***************************************************************************)
ValueTypes == {"int64_t", "uint64_t", "double", "bool", "char",
               "unsigned char", "std::string"}

\* std::is_arithmetic<T>
IsArithmetic(T) == T \in {"int64_t", "uint64_t", "double", "bool", "char",
                          "unsigned char"}
\* std::is_integral<T>
IsIntegral(T) == T \in {"int64_t", "uint64_t", "bool", "char", "unsigned char"}
\* std::is_unsigned<T>: the signedness of plain char depends on the build
IsUnsigned(T, charUns) == \/ T \in {"uint64_t", "bool", "unsigned char"}
                          \/ (T = "char" /\ charUns)
\* std::is_same<T, std::string> || is_same<T, unsigned char> || is_same<T, char>
IsTextual(T) == T \in {"std::string", "unsigned char", "char"}
\* std::is_same<T, std::vector<T>>: no type is a vector of itself
IsVectorOfSelf(T) == FALSE

\* C++ bool to int
BoolInt(b) == IF b THEN 1 ELSE 0

\* a plausible slip: COUNT is left out of the aggregate operators
IsGlobalAggOp_noCnt(op) == op = SOT_min \/ op = SOT_max \/ op = SOT_sum

\* is_global_agg(op==SOT_min || op==SOT_max || op==SOT_sum || op==SOT_cnt)
IsGlobalAggOp(op) == op = SOT_min \/ op = SOT_max \/ op = SOT_sum \/ op = SOT_cnt

ArithOps   == {SOT_lt, SOT_gt, SOT_eq, SOT_ne, SOT_leq, SOT_geq,
               SOT_add, SOT_sub, SOT_mul, SOT_div,
               SOT_min, SOT_max, SOT_sum, SOT_cnt}
MemberOps  == {SOT_in, SOT_not_in}
LogicalOps == {SOT_logical_or, SOT_logical_and, SOT_logical_not,
               SOT_logical_nor, SOT_logical_xor, SOT_logical_nand}
BitwiseOps == {SOT_bitwise_and, SOT_bitwise_or}

\* a plausible slip: the column type list also lets SDT_DATE through
ArithCheck_allowsDate(T, col_type) ==
    IsArithmetic(T) /\ col_type \in (SDT_INT8..SDT_DOUBLE) \cup {SDT_DATE}

\* the assert of the ARITHMETIC/COMPARISON cases
ArithCheck(T, col_type) ==
    /\ IsArithmetic(T)
    /\ col_type \in {SDT_INT8, SDT_INT16, SDT_INT32, SDT_INT64,
                     SDT_UINT8, SDT_UINT16, SDT_UINT32, SDT_UINT64,
                     SDT_BOOL, SDT_CHAR, SDT_UCHAR, SDT_FLOAT, SDT_DOUBLE}

\* a plausible slip: only the value type is checked
LikeCheck_noColType(T, col_type) == IsTextual(T)

\* the assert of the SOT_like case
LikeCheck(T, col_type) ==
    /\ IsTextual(T)
    /\ col_type \in {SDT_STRING, SDT_CHAR, SDT_UCHAR}

\* a plausible slip: the TODO assert is written like computeAgg's
NotImplementedCheck_asInComputeAgg == AssertPasses(OpNotImplemented)

\* assert (TablesErrCodes::OpNotImplemented==0)
NotImplementedCheck == AssertPasses(BoolInt(OpNotImplemented = 0))

\* assert (TablesErrCodes::OpNotRecognized==0)
NotRecognizedCheck == AssertPasses(BoolInt(OpNotRecognized = 0))

\* the two asserts of the LOGICAL cases
LogicalCheck(T, col_type) ==
    /\ IsIntegral(T)
    /\ col_type \in {SDT_INT8, SDT_INT16, SDT_INT32, SDT_INT64,
                     SDT_UINT8, SDT_UINT16, SDT_UINT32, SDT_UINT64,
                     SDT_BOOL, SDT_CHAR, SDT_UCHAR}

\* the two asserts of the BITWISE cases
BitwiseCheck(T, charUns) == IsIntegral(T) /\ IsUnsigned(T, charUns)

\* The constructor's switch: "ok", or the assert that aborts construction.
CtorSwitch(T, col_type, op, charUns) ==
    CASE op \in ArithOps ->
           IF ArithCheck(T, col_type) THEN "ok" ELSE "arith_assert"
      [] op = SOT_like ->
           IF LikeCheck(T, col_type) THEN "ok" ELSE "like_assert"
      [] op \in MemberOps ->
           IF ~IsVectorOfSelf(T) THEN "vector_assert"
           ELSE IF NotImplementedCheck THEN "ok" ELSE "OpNotImplemented"
      [] op = SOT_between ->
           IF NotImplementedCheck THEN "ok" ELSE "OpNotImplemented"
      [] op \in LogicalOps ->
           IF LogicalCheck(T, col_type) THEN "ok" ELSE "logical_assert"
      [] op \in BitwiseOps ->
           IF BitwiseCheck(T, charUns) THEN "ok" ELSE "bitwise_assert"
      [] OTHER ->
           IF NotRecognizedCheck THEN "ok" ELSE "OpNotRecognized"

\* re2::RE2::ok() of the compiled pattern: "(" does not compile
RegexOk(pattern) == pattern # "("

RegxUnset      == [set |-> FALSE, pattern |-> ""]
RegxOf(pattern) == [set |-> TRUE, pattern |-> pattern]

\* TypedPredicate(int idx, int type, int op, const T& val)
TypedPredicate(T, idx, type, op, val, charUns) ==
    LET sw == CtorSwitch(T, type, op, charUns)
        obj == [T |-> T, col_idx |-> idx, col_type |-> type, op_type |-> op,
                is_global_agg |-> IsGlobalAggOp(op), regx |-> RegxUnset,
                val |-> val]
    IN  IF sw # "ok" THEN [ok |-> FALSE, err |-> sw, obj |-> obj]
        ELSE IF op = SOT_like
             THEN IF RegexOk(val)
                  THEN [ok |-> TRUE, err |-> "",
                        obj |-> [obj EXCEPT !.regx = RegxOf(val)]]
                  ELSE [ok |-> FALSE, err |-> "regx_assert", obj |-> obj]
        ELSE [ok |-> TRUE, err |-> "", obj |-> obj]

\* the accessors
colIdx(p)      == p.col_idx
colType(p)     == p.col_type
opType(p)      == p.op_type
isGlobalAgg(p) == p.is_global_agg
Val(p)         == p.val

\* the constructor arguments
ColTypeArgs == (SDT_FIRST - 1)..(SDT_LAST + 1)
ColIdxArgs  == {0}
ValsOf(T)   == IF T = "std::string" THEN {"a.*", "("}
               ELSE IF T \in {"char", "unsigned char"} THEN {"a", "("}
               ELSE 0..MaxPVal
\* what a read through an uninitialized regx pointer may find
GarbagePatterns == {"", "?"}

NoEvent == [kind |-> "none", status |-> "none", T |-> "", col_type |-> 0,
            op |-> 0, err |-> "", src |-> 0, regxSet |-> FALSE]

InitPred ==
    /\ preds = <<>>
    /\ ev = NoEvent
    /\ charUnsigned \in BOOLEAN

\* new TypedPredicate<T>(idx, type, op, val), the first of a predicate_vec;
\* a failing assert aborts the process and leaves no object
Construct(T, idx, type, op, val) ==
    /\ ev.kind = "none"
    /\ preds = <<>>
    /\ LET r == TypedPredicate(T, idx, type, op, val, charUnsigned)
       IN  /\ preds' = IF r.ok THEN <<r.obj>> ELSE <<>>
           /\ ev' = [kind |-> "construct",
                     status |-> IF r.ok THEN "ok" ELSE "failed",
                     T |-> T, col_type |-> type, op |-> op, err |-> r.err,
                     src |-> 0, regxSet |-> r.ok /\ r.obj.regx.set]
    /\ UNCHANGED charUnsigned

ConstructAny ==
    /\ ev.kind = "none"
    /\ \E T \in ValueTypes, idx \in ColIdxArgs, type \in ColTypeArgs,
          op \in OpArgs :
           \E val \in ValsOf(T) : Construct(T, idx, type, op, val)

\* void updateAgg(T newval) {value.val = newval;}
updateAgg(p, newval) == [p EXCEPT !.val = newval]

UpdateAgg(i, newval) ==
    /\ ev.status = "ok"
    /\ i \in 1..Len(preds)
    /\ preds' = [preds EXCEPT ![i] = updateAgg(preds[i], newval)]
    /\ ev' = [kind |-> "updateAgg", status |-> "ok", T |-> preds[i].T,
              col_type |-> preds[i].col_type, op |-> preds[i].op_type,
              err |-> "", src |-> i, regxSet |-> preds[i].regx.set]
    /\ UNCHANGED charUnsigned

UpdateAggAny ==
    \E i \in 1..Len(preds) : \E newval \in ValsOf(preds[i].T) :
        UpdateAgg(i, newval)

\* TypedPredicate(const TypedPredicate &p), given the pattern that
\* p.regx->pattern() yields
CopyOf(p, pattern) ==
    [T |-> p.T, col_idx |-> p.col_idx, col_type |-> p.col_type,
     op_type |-> p.op_type, is_global_agg |-> p.is_global_agg,
     regx |-> RegxOf(pattern), val |-> p.val]

\* The copy constructor reads p.regx->pattern().  regx is assigned only when
\* op_type == SOT_like; otherwise the pointer is uninitialized and the read
\* is undefined: the process crashes, or the copy gets whatever was read.
Copy(i, outcome) ==
    /\ ev.status = "ok"
    /\ i \in 1..Len(preds)
    /\ Len(preds) < MaxPreds
    /\ LET p == preds[i]
       IN  /\ p.regx.set => outcome = p.regx.pattern
           /\ ~p.regx.set => outcome \in GarbagePatterns \cup {"crash"}
           /\ preds' = IF outcome = "crash" /\ ~p.regx.set THEN <<>>
                       ELSE Append(preds, CopyOf(p, outcome))
           /\ ev' = [kind |-> "copy",
                     status |-> IF outcome = "crash" /\ ~p.regx.set
                                THEN "crashed" ELSE "ok",
                     T |-> p.T, col_type |-> p.col_type, op |-> p.op_type,
                     err |-> "", src |-> i, regxSet |-> p.regx.set]
    /\ UNCHANGED charUnsigned

CopyAny ==
    \E i \in 1..Len(preds) :
        \E outcome \in GarbagePatterns \cup {"crash", preds[i].regx.pattern} :
            Copy(i, outcome)

(***************************************************************************)
(* processSkyFb.  The header declares it; its row loop is modelled from    *)
(* the design description: the candidate rows are the explicit row_nums    *)
(* when given (the tombstone scan is bypassed), and all non-deleted slots  *)
(* in physical order otherwise.  An accepted row is folded into the        *)
(* aggregate with computeAgg when there is an aggregate predicate, and     *)
(* emitted otherwise.                                                      *)
(***************************************************************************)
Slots == 0..(NSlots - 1)

\* compare(val1, val2, SOT_gt)
compare_gt(val1, val2) == val1 > val2

\* the slots a full scan visits: the non-deleted ones, in physical order
LiveSlots(dv) ==
    SelectSeq([i \in 1..NSlots |-> i - 1], LAMBDA slot : dv[slot] = 0)

\* the candidate rows of one invocation
CandidateRows(dv, row_nums) ==
    IF row_nums = <<>> THEN LiveSlots(dv) ELSE row_nums

\* applyPredicates for a list that holds at most one filter `col > 0`
applyPredicates(hasFilter, val) == hasFilter => compare_gt(val, 0)

RECURSIVE ProcessRows(_, _, _, _, _)
ProcessRows(cands, data, hasFilter, op, res) ==
    IF cands = <<>> THEN res
    ELSE LET slot == Head(cands)
             rest == Tail(cands)
         IN  IF slot \notin Slots
             THEN [status |-> RowIndexOOB, emitted |-> <<>>,
                   folded |-> <<>>, agg |-> 0]
             ELSE IF ~applyPredicates(hasFilter, data[slot])
             THEN ProcessRows(rest, data, hasFilter, op, res)
             ELSE IF op \in AggOps
             THEN ProcessRows(rest, data, hasFilter, op,
                      [res EXCEPT !.folded = Append(@, slot),
                                  !.agg = computeAgg(data[slot], @, op).ret])
             ELSE ProcessRows(rest, data, hasFilter, op,
                      [res EXCEPT !.emitted = Append(@, slot)])

processSkyFb(dv, data, hasFilter, op, row_nums) ==
    ProcessRows(CandidateRows(dv, row_nums), data, hasFilter, op,
                [status |-> 0, emitted |-> <<>>, folded |-> <<>>, agg |-> 0])

RowVals == 0..1

\* row_nums: the lists of at most MaxRowNums slot numbers, out-of-range
\* slot number NSlots included
RowNumsArgs ==
    UNION {[1..n -> 0..NSlots] : n \in 0..MaxRowNums}

NoProc == [status |-> -1, emitted |-> <<>>, folded |-> <<>>, agg |-> 0,
           row_nums |-> <<>>, op |-> 0]

InitProc ==
    /\ delete_vec \in [Slots -> {0, 1}]
    /\ rowdata \in [Slots -> RowVals]
    /\ proc = NoProc

\* one invocation over the partition (delete_vec, rowdata)
Process(hasFilter, op, row_nums) ==
    /\ LET r == processSkyFb(delete_vec, rowdata, hasFilter, op, row_nums)
       IN  proc' = [status |-> r.status, emitted |-> r.emitted,
                    folded |-> r.folded, agg |-> r.agg,
                    row_nums |-> row_nums, op |-> op]
    /\ UNCHANGED <<delete_vec, rowdata>>

ProcessAny ==
    \E hasFilter \in BOOLEAN, op \in {0, SOT_sum, SOT_cnt},
       row_nums \in RowNumsArgs :
        Process(hasFilter, op, row_nums)

(***************************************************************************)
(* Specifications.  Each part of the header is exercised on its own; the   *)
(* variables of the other parts stay at their idle values.                 *)
(***************************************************************************)
IdlePred == preds = <<>> /\ ev = NoEvent /\ charUnsigned = FALSE
IdleAgg  == aggOp = 0 /\ acc0 = 0 /\ acc = 0 /\ rows = <<>> /\ call = NoCall
IdleKey  == v1 = U64OfSmall(0) /\ v2 = U64OfSmall(0) /\ key1 = NoKey /\ key2 = NoKey
IdleProc == delete_vec = [s \in Slots |-> 0] /\ rowdata = [s \in Slots |-> 0] /\ proc = NoProc

\* TypedPredicate objects
Init == InitPred /\ IdleAgg /\ IdleKey /\ IdleProc
Next ==
    \/ ConstructAny /\ UNCHANGED <<aggVars, keyVars, procVars>>
    \/ UpdateAggAny /\ UNCHANGED <<aggVars, keyVars, procVars>>
    \/ CopyAny /\ UNCHANGED <<aggVars, keyVars, procVars>>
Spec == Init /\ [][Next]_vars

\* computeAgg folded over rows
NextAgg == FoldRow /\ UNCHANGED <<predVars, keyVars, procVars>>
InitAggSpec == InitAgg /\ IdlePred /\ IdleKey /\ IdleProc
SpecAgg == InitAggSpec /\ [][NextAgg]_vars

\* u64tostr
NextKey == BuildKeys /\ UNCHANGED <<predVars, aggVars, procVars>>
InitKeySpec == InitKey /\ IdlePred /\ IdleAgg /\ IdleProc
SpecKey == InitKeySpec /\ [][NextKey]_vars

\* processSkyFb
NextProc == ProcessAny /\ UNCHANGED <<predVars, aggVars, keyVars>>
InitProcSpec == InitProc /\ IdlePred /\ IdleAgg /\ IdleKey
SpecProc == InitProcSpec /\ [][NextProc]_vars

(***************************************************************************)
(* Properties                                                              *)
(***************************************************************************)
Smaller(a, b) == IF a < b THEN a ELSE b
Larger(a, b)  == IF a > b THEN a ELSE b

RECURSIVE SumOf(_)
SumOf(seq) == IF seq = <<>> THEN 0 ELSE Head(seq) + SumOf(Tail(seq))

\* C1: computeAgg(val, oldval, SOT_min) returns the smaller of val and
\* oldval and computeAgg(val, oldval, SOT_max) the larger (oldval when they
\* are equal).  Under SpecAgg the code violates it: without a break, MIN
\* falls into MAX and both fall into SUM.
C1_MinMaxKeepSmallerLarger ==
    call.status # "none" =>
        /\ call.op = SOT_min =>
              call.status = "returned" /\ call.ret = Smaller(call.val, call.oldval)
        /\ call.op = SOT_max =>
              call.status = "returned" /\ call.ret = Larger(call.val, call.oldval)

\* C2: folding computeAgg over the rows from the accumulator 0 yields the
\* sum of the rows for SOT_sum and the number of rows for SOT_cnt.
C2_FoldSumCount ==
    (acc0 = 0 /\ aggOp \in {SOT_sum, SOT_cnt}) =>
        /\ call.status # "aborted"
        /\ aggOp = SOT_sum => acc = SumOf(rows)
        /\ aggOp = SOT_cnt => acc = Len(rows)

C2_Witness ==
    aggOp = SOT_sum /\ acc0 = 0 /\ rows = <<1, 5, 10>> /\ acc = 16

\* C3: computeAgg with an op other than SOT_min, SOT_max, SOT_sum, SOT_cnt
\* ends in an assertion failure and returns nothing.  Under SpecAgg the code
\* violates it: assert(OpNotImplemented) passes, and oldval is returned.
C3_OtherOpAborts ==
    (call.status # "none" /\ call.op \notin {SOT_min, SOT_max, SOT_sum, SOT_cnt})
        => call.status = "aborted"

\* C4: a predicate with op SOT_like exists only with a textual value type
\* and a column type of SDT_STRING, SDT_CHAR or SDT_UCHAR; every other
\* construction with SOT_like fails and leaves no object.
C4_LikeNeedsTextual ==
    LET textual(T, ct) == /\ T \in {"std::string", "char", "unsigned char"}
                          /\ ct \in {SDT_STRING, SDT_CHAR, SDT_UCHAR}
    IN  /\ \A i \in 1..Len(preds) :
              opType(preds[i]) = SOT_like =>
                  textual(preds[i].T, colType(preds[i]))
        /\ (ev.kind = "construct" /\ ev.op = SOT_like
              /\ ~textual(ev.T, ev.col_type))
              => (ev.status = "failed" /\ preds = <<>>)

C4_Witness ==
    /\ ev.kind = "construct" /\ ev.op = SOT_like /\ ev.T = "std::string"
    /\ ev.col_type = SDT_INT64 /\ ev.status = "failed" /\ preds = <<>>

\* C5: the key strings have exactly 20 characters, and v1 < v2 implies
\* that the key of v1 is lexicographically smaller than the key of v2.
C5_KeyOrderAndWidth ==
    key1 # NoKey =>
        /\ Len(key1) = 20
        /\ Len(key2) = 20
        /\ U64Less(v1, v2) => StrLess(key1, key2)

C5_Witness ==
    /\ v1 = U64OfDecimal(Nines(19))
    /\ v2 = U64Max
    /\ key1 # NoKey
    /\ StrLess(key1, key2)

\* C6: isGlobalAgg() is true iff opType() is one of SOT_min, SOT_max,
\* SOT_sum, SOT_cnt, for every predicate and hence for a predicate list;
\* and an updateAgg step changes nothing but the stored value.
C6_AggFlagIffAggOp ==
    /\ [](\A i \in 1..Len(preds) :
             isGlobalAgg(preds[i]) <=>
                 opType(preds[i]) \in {SOT_min, SOT_max, SOT_sum, SOT_cnt})
    /\ []((\E i \in 1..Len(preds) : isGlobalAgg(preds[i])) <=>
             (\E i \in 1..Len(preds) :
                 opType(preds[i]) \in {SOT_min, SOT_max, SOT_sum, SOT_cnt}))
    /\ [][ev'.kind = "updateAgg" =>
             /\ Len(preds') = Len(preds)
             /\ \A i \in 1..Len(preds) :
                   /\ colIdx(preds'[i]) = colIdx(preds[i])
                   /\ colType(preds'[i]) = colType(preds[i])
                   /\ opType(preds'[i]) = opType(preds[i])
                   /\ isGlobalAgg(preds'[i]) = isGlobalAgg(preds[i])]_vars

C6_Witness ==
    /\ ev.kind = "updateAgg"
    /\ Len(preds) = 1
    /\ opType(preds[1]) = SOT_cnt
    /\ isGlobalAgg(preds[1])
    /\ Val(preds[1]) = 1

\* C7: a row whose delete_vec entry is set is neither emitted nor folded
\* into an aggregate, with or without row_nums.  Under SpecProc the row loop
\* violates it: an explicit row_nums list bypasses the tombstones.
C7_TombstoneExclusion ==
    proc.status = 0 =>
        /\ \A k \in 1..Len(proc.emitted) : delete_vec[proc.emitted[k]] = 0
        /\ \A k \in 1..Len(proc.folded) : delete_vec[proc.folded[k]] = 0

\* C8 as stated: a predicate with SOT_in, SOT_not_in or SOT_between can be
\* constructed (and fails only when evaluated).  The constructor violates it.
C8_MembershipConstructs ==
    (ev.kind = "construct" /\ ev.op \in {SOT_in, SOT_not_in, SOT_between})
        => ev.status = "ok"

\* C8 amended: SOT_in, SOT_not_in and SOT_between are cases of the
\* constructor's switch (not the unrecognized default), but constructing a
\* predicate with one of them always fails by assertion, so no such
\* predicate exists and none reaches evaluation.
C8_MembershipFailsAtConstruction ==
    LET ops == {SOT_in, SOT_not_in, SOT_between}
    IN  /\ \A i \in 1..Len(preds) : opType(preds[i]) \notin ops
        /\ (ev.kind = "construct" /\ ev.op \in ops) =>
              /\ ev.status = "failed"
              /\ preds = <<>>
              /\ ev.err # "OpNotRecognized"
              /\ ev.op = SOT_between => ev.err = "OpNotImplemented"

C8_Witness ==
    /\ ev.kind = "construct" /\ ev.op = SOT_between
    /\ ev.status = "failed" /\ ev.err = "OpNotImplemented"

\* C9: with a comparison, arithmetic or aggregate operator construction
\* succeeds iff the value type is arithmetic and the column type is one of
\* the thirteen numeric/bool/char types; SDT_DATE, SDT_STRING or a string
\* value fail; an operator outside SOT_FIRST..SOT_LAST always fails.
C9_ArithConstruction ==
    LET ops == {SOT_lt, SOT_gt, SOT_eq, SOT_ne, SOT_leq, SOT_geq, SOT_add,
                SOT_sub, SOT_mul, SOT_div, SOT_min, SOT_max, SOT_sum, SOT_cnt}
        cols == {SDT_INT8, SDT_INT16, SDT_INT32, SDT_INT64, SDT_UINT8,
                 SDT_UINT16, SDT_UINT32, SDT_UINT64, SDT_BOOL, SDT_CHAR,
                 SDT_UCHAR, SDT_FLOAT, SDT_DOUBLE}
    IN  ev.kind = "construct" =>
          /\ ev.op \in ops =>
                (ev.status = "ok" <=>
                    (ev.T # "std::string" /\ ev.col_type \in cols))
          /\ (ev.op \in ops /\ (ev.col_type \in {SDT_DATE, SDT_STRING}
                                 \/ ev.T = "std::string"))
                => (ev.status = "failed" /\ preds = <<>>)
          /\ (ev.op < SOT_FIRST \/ ev.op > SOT_LAST)
                => (ev.status = "failed" /\ ev.err = "OpNotRecognized")

C9_Witness ==
    /\ ev.kind = "construct" /\ ev.op = SOT_sum /\ ev.T = "double"
    /\ ev.col_type = SDT_DATE /\ ev.status = "failed"

\* C10: the copy constructor only reads a regx that was set when the
\* original was constructed, for every operator kind, and the copy has the
\* fields of the original.  The code violates it: regx is set only for
\* SOT_like, and a copy of any other predicate reads it uninitialized.
C10_CopyReadsSetRegx ==
    ev.kind = "copy" =>
        /\ ev.regxSet
        /\ ev.status = "ok"
        /\ LET p == preds[ev.src]
               q == preds[Len(preds)]
           IN  /\ colIdx(q) = colIdx(p) /\ colType(q) = colType(p)
               /\ opType(q) = opType(p) /\ isGlobalAgg(q) = isGlobalAgg(p)
               /\ Val(q) = Val(p)
=============================================================================
